---- MODULE Spec2Model ----
(***************************************************************************)
(* babyjubjub-ecdsa: the fixed-depth Merkle accumulator                    *)
(* (computeMerkleRoot, generateMerkleProof) and the Efficient-ECDSA        *)
(* public-input recovery (getPublicInputsFromSignature).                   *)
(*                                                                         *)
(* Field elements produced by the Merkle code are modelled as hash terms:  *)
(*   <<c>>      an atom: c >= 0 the field element c, c < 0 the             *)
(*              precomputed table constant ZEROS[-c];                      *)
(*   <<l, r>>   the Poseidon hash of the pair (l, r);                      *)
(*   <<>>       JavaScript's undefined (an array read out of bounds).      *)
(* Poseidon is therefore injective here, the most general hash: an         *)
(* equality of two roots that holds for terms holds for every hash.        *)
(***************************************************************************)
EXTENDS Integers, Sequences, FiniteSets, TLC

VARIABLES
    pubKeys,                 \* the caller's key array, passed to the Merkle calls by reference
    index, hashFn,           \* the other arguments of a Merkle call
    mutations,               \* how often the caller has changed the key array
    gmp, cmr,                \* where a call of generateMerkleProof / computeMerkleRoot stands
    proof, root,             \* what generateMerkleProof / computeMerkleRoot returned
    sig, msgHash, pubKey,    \* the arguments of getPublicInputsFromSignature
    publicInputs             \* how getPublicInputsFromSignature ended

vars == <<pubKeys, index, hashFn, mutations, gmp, cmr, proof, root,
          sig, msgHash, pubKey, publicInputs>>

(* ------------------------------ bounds -------------------------------- *)

\* Key lists of every length 0..MaxKeys are explored (besides the lengths
\* around the tree's capacity, see LargeCounts).
MaxKeys == 6

\* Indices from -MaxOut to Len(pubKeys) - 1 + MaxOut are explored.
MaxOut == 2

\* The caller changes the key array at most this often while calls are
\* pending.
MaxMutations == 1

(* --------------------------- JavaScript bits --------------------------- *)

Undefined == <<>>

\* JavaScript's %: the result has the sign of the dividend.
JsRem(a, b) == IF a >= 0 THEN a % b ELSE -((-a) % b)

\* Math.floor(a / 2).
FloorHalf(a) == a \div 2

\* A 0-based array read; out of bounds (negative too) reads undefined.
At(arr, k) == IF k >= 0 /\ k < Len(arr) THEN arr[k + 1] ELSE Undefined

RECURSIVE Pow2(_)
Pow2(k) == IF k = 0 THEN 1 ELSE 2 * Pow2(k - 1)

(* ------------------------------ Merkle --------------------------------- *)

TREE_DEPTH == 8

\* The table of precomputed hashes of zero, one per layer: ZEROS[0] is the
\* field's zero, ZEROS[i] the literal of line 41 + i.
ZEROS == [i \in 0 .. TREE_DEPTH - 1 |-> <<-i>>]

\* The Poseidon permutation on two inputs, as a handle in the hash
\* library's internal (Montgomery) representation. A pair of equal table
\* constants hashes to the next table constant: the table holds the
\* precomputed hashes of zero.
poseidon(inputs) ==
    LET l == inputs[1]
        r == inputs[2]
    IN  IF l = r /\ \E i \in 0 .. TREE_DEPTH - 2 : l = ZEROS[i]
        THEN [mont |-> ZEROS[(CHOOSE i \in 0 .. TREE_DEPTH - 2 : l = ZEROS[i]) + 1]]
        ELSE [mont |-> <<l, r>>]

\* poseidon.F.toString(h, 16): the handle out of Montgomery form, in hex.
FtoString(h) == [hex |-> h.mont]

\* hexToBigInt: the hex string as a field element.
hexToBigInt(s) == s.hex

\* An Edwards public key with coordinates derived from the key's number k.
EdwardsKey(k) == [x |-> k, y |-> k + 1]

\* hashEdwardsPublicKey: the Poseidon hash of the key's two coordinates.
hashEdwardsPublicKey(pk) == hexToBigInt(FtoString(poseidon(<< <<pk.x>>, <<pk.y>> >>)))

\* A sibling always taken to the right of the path node.
SiblingIndexAlwaysRight(idx) == idx + 1

\* Lines 63-64: the sibling's position at this level.
SiblingIndex(idx) == IF JsRem(idx, 2) = 0 THEN idx + 1 ELSE idx - 1

\* One zero reused at every level in place of the level's own.
SiblingReusedZero(prevLayer, idx, i) ==
    IF SiblingIndex(idx) = Len(prevLayer)
    THEN ZEROS[0]
    ELSE At(prevLayer, SiblingIndex(idx))

\* Lines 65-68: the sibling at level i.
Sibling(prevLayer, idx, i) ==
    IF SiblingIndex(idx) = Len(prevLayer)
    THEN ZEROS[i]
    ELSE At(prevLayer, SiblingIndex(idx))

\* The odd last element dropped instead of paired with the level's zero.
NextLayerDropOddTail(prevLayer, i) ==
    [k \in 1 .. (Len(prevLayer) \div 2) |->
        hexToBigInt(FtoString(poseidon(<<At(prevLayer, 2 * k - 2), At(prevLayer, 2 * k - 1)>>)))]

\* The odd last element paired with ZEROS[0] at every level.
NextLayerReusedZero(prevLayer, i) ==
    [k \in 1 .. ((Len(prevLayer) + 1) \div 2) |->
        LET j == 2 * (k - 1)
            secondNode == IF j + 1 = Len(prevLayer) THEN ZEROS[0] ELSE At(prevLayer, j + 1)
        IN  hexToBigInt(FtoString(poseidon(<<At(prevLayer, j), secondNode>>)))]

\* Lines 72-77: the next layer, pairing consecutive elements.
NextLayer(prevLayer, i) ==
    [k \in 1 .. ((Len(prevLayer) + 1) \div 2) |->
        LET j == 2 * (k - 1)
            secondNode == IF j + 1 = Len(prevLayer) THEN ZEROS[i] ELSE At(prevLayer, j + 1)
        IN  hexToBigInt(FtoString(poseidon(<<At(prevLayer, j), secondNode>>)))]

\* Lines 62-84: the loop over the levels, from level i on, and the result.
\* prevLayer is kept in the result as the working layer after the loop.
RECURSIVE MerkleLoop(_, _, _, _, _)
MerkleLoop(i, prevLayer, idx, pathIndices, siblings) ==
    IF i >= TREE_DEPTH
    THEN [status |-> "returned", root |-> At(prevLayer, 0),
          pathIndices |-> pathIndices, siblings |-> siblings,
          prevLayer |-> prevLayer]
    ELSE MerkleLoop(i + 1, NextLayer(prevLayer, i), FloorHalf(idx),
                    Append(pathIndices, JsRem(idx, 2)),
                    Append(siblings, Sibling(prevLayer, idx, i)))

\* Line 55: the leaves.
Leaves(keys) == [j \in 1 .. Len(keys) |-> hashEdwardsPublicKey(keys[j])]

\* The root read at the caller's index instead of at 0.
generateMerkleProofRootAtIndex(keys, idx) ==
    LET run == MerkleLoop(0, Leaves(keys), idx, <<>>, <<>>)
    IN  [run EXCEPT !.root = At(run.prevLayer, idx)]

\* Lines 55-84, on the contents `keys` the array had when line 55 mapped
\* over it.
generateMerkleProof(keys, idx) == MerkleLoop(0, Leaves(keys), idx, <<>>, <<>>)

(* ---------------------------- Merkle calls ----------------------------- *)
(* Both functions are async. generateMerkleProof runs up to its first      *)
(* await and hands control back: without a hash function that is line 52   *)
(* (await buildPoseidonReference()), before the key array is read; line 55 *)
(* then maps over the array as it is at that moment and awaits the leaves  *)
(* (await Promise.all), and lines 57-84 run when the call is resumed.      *)
(* computeMerkleRoot (line 21) awaits such a call for index 0 and is       *)
(* resumed with its proof. Between these steps the caller runs, and the    *)
(* key array is the caller's own: it may have changed by the time it is    *)
(* read.                                                                   *)

\* A list of m keys of which the first v are distinct and the rest repeat
\* them in order.
KeyList(m, v) == [j \in 1 .. m |-> EdwardsKey(((j - 1) % v) + 1)]

\* The lengths around the tree's capacity 2^TREE_DEPTH.
LargeCounts == {Pow2(TREE_DEPTH) - 1, Pow2(TREE_DEPTH), Pow2(TREE_DEPTH) + 1}

KeyLists ==
    {KeyList(m, v) : m \in 0 .. MaxKeys, v \in 1 .. MaxKeys}
        \cup {KeyList(m, m) : m \in LargeCounts}

\* The indices explored for a list of m keys: all of them, and MaxOut on
\* either side, for the short lists; for the lengths around the capacity
\* those within MaxOut of either end, and the powers of two and their
\* predecessors (a single right turn, and right turns only below a level).
Indices(m) ==
    IF m <= MaxKeys
    THEN (0 - MaxOut) .. (m - 1 + MaxOut)
    ELSE ((0 - MaxOut) .. MaxOut)
             \cup ((m - 1 - MaxOut) .. (m - 1 + MaxOut))
             \cup {Pow2(k) : k \in 0 .. TREE_DEPTH - 1}
             \cup {Pow2(k) - 1 : k \in 0 .. TREE_DEPTH - 1}

\* hashFn: a Poseidon instance passed in, or left out (undefined).
NoHashFn == "undefined"

HashFns == {NoHashFn, "poseidon"}

Pending == [status |-> "pending"]

\* A call not made yet.
NotCalled == [pc |-> "idle"]

MerkleInit ==
    /\ pubKeys \in KeyLists
    /\ index \in Indices(Len(pubKeys))
    /\ hashFn \in HashFns
    /\ mutations = 0
    /\ gmp = NotCalled
    /\ cmr = NotCalled
    /\ proof = Pending
    /\ root = Pending
    /\ sig = [r |-> 0, s |-> 0]
    /\ msgHash = 0
    /\ pubKey = [x |-> 0, y |-> 0]
    /\ publicInputs = Pending

\* Line 55, up to its await: pubKeys.map(hashEdwardsPublicKey) goes over
\* the array's contents of this moment.
AwaitLeaves == [pc |-> "line55", keys |-> pubKeys]

\* Lines 38-55 up to the first await: line 52 when no hash function was
\* passed, line 55 otherwise.
AwaitFirst == IF hashFn = NoHashFn THEN [pc |-> "line52"] ELSE AwaitLeaves

\* generateMerkleProof(pubKeys, index, hashFn) is called.
GenerateMerkleProofCall ==
    /\ gmp.pc = "idle"
    /\ gmp' = AwaitFirst
    /\ UNCHANGED <<pubKeys, index, hashFn, mutations, cmr, proof, root,
                   sig, msgHash, pubKey, publicInputs>>

\* Resumed after line 52.
GenerateMerkleProofLine52 ==
    /\ gmp.pc = "line52"
    /\ gmp' = AwaitLeaves
    /\ UNCHANGED <<pubKeys, index, hashFn, mutations, cmr, proof, root,
                   sig, msgHash, pubKey, publicInputs>>

\* Resumed after line 55: lines 57-84.
GenerateMerkleProofLine55 ==
    /\ gmp.pc = "line55"
    /\ proof' = generateMerkleProof(gmp.keys, index)
    /\ gmp' = [gmp EXCEPT !.pc = "done"]
    /\ UNCHANGED <<pubKeys, index, hashFn, mutations, cmr, root,
                   sig, msgHash, pubKey, publicInputs>>

\* computeMerkleRoot(pubKeys, hashFn) is called: line 21 calls
\* generateMerkleProof(pubKeys, 0, hashFn), which runs to its first await.
ComputeMerkleRootCall ==
    /\ cmr.pc = "idle"
    /\ cmr' = AwaitFirst
    /\ UNCHANGED <<pubKeys, index, hashFn, mutations, gmp, proof, root,
                   sig, msgHash, pubKey, publicInputs>>

\* The inner call resumed after line 52.
ComputeMerkleRootLine52 ==
    /\ cmr.pc = "line52"
    /\ cmr' = AwaitLeaves
    /\ UNCHANGED <<pubKeys, index, hashFn, mutations, gmp, proof, root,
                   sig, msgHash, pubKey, publicInputs>>

\* The inner call resumed after line 55: it resolves with its proof, on
\* which line 21 waits.
ComputeMerkleRootLine55 ==
    /\ cmr.pc = "line55"
    /\ cmr' = [pc |-> "line21", keys |-> cmr.keys,
               proof |-> generateMerkleProof(cmr.keys, 0)]
    /\ UNCHANGED <<pubKeys, index, hashFn, mutations, gmp, proof, root,
                   sig, msgHash, pubKey, publicInputs>>

\* Resumed after line 21: line 22.
ComputeMerkleRootLine21 ==
    /\ cmr.pc = "line21"
    /\ root' = [status |-> "returned", root |-> cmr.proof.root]
    /\ cmr' = [pc |-> "done", keys |-> cmr.keys]
    /\ UNCHANGED <<pubKeys, index, hashFn, mutations, gmp, proof,
                   sig, msgHash, pubKey, publicInputs>>

\* A call was made and has not returned.
InFlight(call) == call.pc \in {"line52", "line55", "line21"}

\* A key that is in none of the initial lists.
NewKey == EdwardsKey(MaxKeys + 1)

\* The caller changes the key array while a call is pending (the arrays
\* of the lengths around the capacity are left alone).
CallerMayMutate ==
    /\ InFlight(gmp) \/ InFlight(cmr)
    /\ mutations < MaxMutations
    /\ Len(pubKeys) <= MaxKeys

\* pubKeys.push(key)
CallerPush ==
    /\ CallerMayMutate
    /\ pubKeys' = Append(pubKeys, NewKey)
    /\ mutations' = mutations + 1
    /\ UNCHANGED <<index, hashFn, gmp, cmr, proof, root,
                   sig, msgHash, pubKey, publicInputs>>

\* pubKeys.pop()
CallerPop ==
    /\ CallerMayMutate
    /\ Len(pubKeys) >= 1
    /\ pubKeys' = SubSeq(pubKeys, 1, Len(pubKeys) - 1)
    /\ mutations' = mutations + 1
    /\ UNCHANGED <<index, hashFn, gmp, cmr, proof, root,
                   sig, msgHash, pubKey, publicInputs>>

MerkleNext ==
    \/ GenerateMerkleProofCall
    \/ GenerateMerkleProofLine52
    \/ GenerateMerkleProofLine55
    \/ ComputeMerkleRootCall
    \/ ComputeMerkleRootLine52
    \/ ComputeMerkleRootLine55
    \/ ComputeMerkleRootLine21
    \/ CallerPush
    \/ CallerPop

MerkleSpec == MerkleInit /\ [][MerkleNext]_vars

(* ------------------------- the curve (scaled) -------------------------- *)
(* Baby Jubjub's arithmetic is on 254-bit integers. The model keeps the     *)
(* curve's shape on a small field: the Montgomery curve                     *)
(* v^2 = u^3 + A u^2 + u over the prime field Fb, in short Weierstrass form *)
(* y^2 = x^3 + a x + b, whose group is cyclic of order cofactor * n with n  *)
(* prime and cofactor = 8, and cofactor * n slightly above the field prime  *)
(* (Baby Jubjub: 8 n - p is about 2^126), so that r + i * n exceeds the     *)
(* field prime only for i = cofactor - 1 and the largest r.                 *)

\* The base field's prime (babyjubjub.Fb.p).
FbP == 53

\* The prime order of the generator's subgroup (babyjubjub.Fs.p).
FsP == 7

\* babyjubjub.cofactor
cofactor == 8

\* The Montgomery coefficient A.
MontA == 14

\* ffjavascript's ZqField.add on reduced operands.
FieldAdd(q, a, b) == IF a + b >= q THEN a + b - q ELSE a + b

FieldSub(q, a, b) == IF a >= b THEN a - b ELSE q - (b - a)

FieldMul(q, a, b) == (a * b) % q

\* ffjavascript's ZqField.neg
FieldNeg(q, a) == IF a # 0 THEN q - a ELSE a

\* The inverses of the base field, and of the order field.
FbInverses == [a \in 1 .. FbP - 1 |-> CHOOSE x \in 1 .. FbP - 1 : (a * x) % FbP = 1]

FsInverses == [a \in 1 .. FsP - 1 |-> CHOOSE x \in 1 .. FsP - 1 : (a * x) % FsP = 1]

\* Fb.div(a, b) for b # 0.
FbDiv(a, b) == FieldMul(FbP, a, FbInverses[b])

\* Fs.inv(a) for a # 0 (Fs.inv(0) throws "Division by zero"): the extended
\* Euclid on a mod n, which yields 0 for a multiple of n.
FsInv(a) == IF a % FsP = 0 THEN 0 ELSE FsInverses[a % FsP]

\* montgomery_to_weierstrass: a = (3 - A^2) / 3, b = (2 A^3 - 9 A) / 27.
WeierstrassA == FbDiv((3 - MontA * MontA) % FbP, 3)

WeierstrassB == FbDiv((2 * MontA * MontA * MontA - 9 * MontA) % FbP, 27)

\* Points of the elliptic library: <<x, y>>, or <<>> for the point at
\* infinity.
Infinity == <<>>

OnCurve(x, y) == (y * y) % FbP = (x * x * x + WeierstrassA * x + WeierstrassB) % FbP

FinitePoints == {pt \in (0 .. FbP - 1) \X (0 .. FbP - 1) : OnCurve(pt[1], pt[2])}

\* point.add(other) of the elliptic library (short Weierstrass, affine).
EcAdd(P, Q) ==
    IF P = Infinity THEN Q
    ELSE IF Q = Infinity THEN P
    ELSE IF P[1] = Q[1] /\ (P[2] + Q[2]) % FbP = 0 THEN Infinity
    ELSE LET lambda == IF P = Q
                       THEN FbDiv((3 * P[1] * P[1] + WeierstrassA) % FbP, (2 * P[2]) % FbP)
                       ELSE FbDiv(FieldSub(FbP, Q[2], P[2]), FieldSub(FbP, Q[1], P[1]))
             x3 == (lambda * lambda + 2 * FbP - P[1] - Q[1]) % FbP
         IN  <<x3, (lambda * FieldSub(FbP, P[1], x3) + FbP - P[2]) % FbP>>

\* Every sum of two points, computed once.
AddTable == [P \in FinitePoints \cup {Infinity}, Q \in FinitePoints \cup {Infinity} |-> EcAdd(P, Q)]

\* point.mul(k) of the elliptic library, for a scalar 0 <= k.
RECURSIVE EcMul(_, _)
EcMul(P, k) == IF k = 0 THEN Infinity ELSE AddTable[EcMul(P, k - 1), P]

\* curve.pointFromX(x, odd): the point with this x whose y has the given
\* parity (y = 0 has no negative: it is returned for either parity);
\* <<-1>> where the library throws 'invalid point'.
InvalidPoint == <<-1>>

pointFromX(x, odd) ==
    IF \E y \in 0 .. FbP - 1 : OnCurve(x, y)
    THEN LET y == CHOOSE yy \in 0 .. FbP - 1 : OnCurve(x, yy)
         IN  IF (y % 2 = 1) # (odd = 1) THEN <<x, FieldNeg(FbP, y)>> ELSE <<x, y>>
    ELSE InvalidPoint

\* The generator of the subgroup of prime order FsP: the first point of
\* that order.
SubgroupPoints == {P \in FinitePoints : EcMul(P, FsP) = Infinity}

curveG == CHOOSE P \in SubgroupPoints : \A Q \in SubgroupPoints : P[1] < Q[1] \/ (P[1] = Q[1] /\ P[2] <= Q[2])

\* WeierstrassPoint.fromEllipticPoint: the point's coordinates. The point
\* at infinity has none (a WeierstrassPoint lies on the curve): the call
\* throws, which is Unreadable here.
Unreadable == [x |-> -2, y |-> -2]

fromEllipticPoint(pt) == IF pt = Infinity THEN Unreadable ELSE [x |-> pt[1], y |-> pt[2]]

\* WeierstrassPoint.equals
equals(P, Q) == P.x = Q.x /\ P.y = Q.y

\* The birational map is not defined at these points.
NoPoint == [x |-> -1, y |-> -1]

\* WeierstrassPoint.toEdwards: through the Montgomery form (x - A/3, y).
toEdwards(P) ==
    LET mx == FieldSub(FbP, P.x, FbDiv(MontA, 3))
        my == P.y
    IN  IF my = 0 \/ FieldAdd(FbP, mx, 1) = 0
        THEN NoPoint
        ELSE [x |-> FbDiv(mx, my), y |-> FbDiv(FieldSub(FbP, mx, 1), FieldAdd(FbP, mx, 1))]

\* EdwardsPoint.toWeierstrass
toWeierstrass(E) ==
    IF E.x = 0 \/ FieldSub(FbP, 1, E.y) = 0
    THEN NoPoint
    ELSE LET mx == FbDiv(FieldAdd(FbP, 1, E.y), FieldSub(FbP, 1, E.y))
             my == FbDiv(FieldAdd(FbP, 1, E.y), FieldMul(FbP, FieldSub(FbP, 1, E.y), E.x))
         IN  [x |-> FieldAdd(FbP, mx, FbDiv(MontA, 3)), y |-> my]

(* -------------------- getPublicInputsFromSignature --------------------- *)

\* The candidates in the order of the two loops: candidate c is
\* (i, parity) = (c div 2, c mod 2), for c = 0 .. 2 * cofactor - 1.
CandidateI(c) == c \div 2

\* Parity 1 tried before parity 0.
CandidateParityOddFirst(c) == 1 - (c % 2)

CandidateParity(c) == c % 2

\* Line 109: r = Fb.add(sig.r, Fb.mul(BigInt(i), Fs.p))
CandidateX(sg, i) == FieldAdd(FbP, sg.r, FieldMul(FbP, i, FsP))

\* Line 110: the value handed to Fs.inv.
Inverted(sg, i) == CandidateX(sg, i)

\* Lines 109-134 for one candidate c. outcome:
\*   "DivisionByZero"  Fs.inv(0) threw (line 110);
\*   "skipped"         pointFromX threw, caught (lines 112-120);
\*   "PointAtInfinity" fromEllipticPoint threw on T, U or s*T + U, the
\*                     point at infinity (lines 122, 126, 129);
\*   "rejected"        s*T + U differs from pubKey (line 131);
\*   "ConversionError" a match, but toEdwards is undefined at R, T or U;
\*   "matched"         a match, with R, T, U in Edwards form (line 133).
Candidate(c, sg, mh, pk) ==
    LET i == CandidateI(c)
        parity == CandidateParity(c)
        r == CandidateX(sg, i)
        inverted == Inverted(sg, i)
        entry == [i |-> i, parity |-> parity, x |-> r, inverted |-> inverted]
    IN  IF inverted = 0
        THEN entry @@ [outcome |-> "DivisionByZero"]
        ELSE
        LET rInv == FsInv(inverted)
            ecR == pointFromX(r, parity)
        IN  IF ecR = InvalidPoint
            THEN entry @@ [outcome |-> "skipped", rInv |-> rInv]
            ELSE
            LET ecT == EcMul(ecR, rInv)
                T == fromEllipticPoint(ecT)
                rInvm == FieldNeg(FsP, FieldMul(FsP, rInv, mh))
                ecU == EcMul(curveG, rInvm)
                U == fromEllipticPoint(ecU)
                ecsTU == AddTable[EcMul(ecT, sg.s), ecU]
                sTU == fromEllipticPoint(ecsTU)
                found == entry @@ [rInv |-> rInv, ecR |-> ecR, ecT |-> ecT, ecU |-> ecU]
            IN  IF T = Unreadable \/ U = Unreadable \/ sTU = Unreadable
                THEN found @@ [outcome |-> "PointAtInfinity"]
                ELSE IF ~equals(sTU, pk)
                THEN found @@ [outcome |-> "rejected"]
                ELSE
                LET R == fromEllipticPoint(ecR)
                    edR == toEdwards(R)
                    edT == toEdwards(T)
                    edU == toEdwards(U)
                IN  IF edR = NoPoint \/ edT = NoPoint \/ edU = NoPoint
                    THEN found @@ [outcome |-> "ConversionError"]
                    ELSE found @@ [outcome |-> "matched", R |-> edR, T |-> edT, U |-> edU]

\* Every exception of the loop's body caught, not only pointFromX's.
RECURSIVE SignatureLoopCatchAll(_, _, _, _, _)
SignatureLoopCatchAll(c, sg, mh, pk, examined) ==
    IF c >= 2 * cofactor
    THEN [status |-> "NoValidCandidateFound", examined |-> examined]
    ELSE LET cand == Candidate(c, sg, mh, pk)
             seen == Append(examined, cand)
         IN  IF cand.outcome = "matched"
             THEN [status |-> "returned", R |-> cand.R, T |-> cand.T, U |-> cand.U,
                   examined |-> seen]
             ELSE SignatureLoopCatchAll(c + 1, sg, mh, pk, seen)

\* Lines 107-138: the two loops from candidate c on. `examined` lists the
\* candidates gone through so far, in order.
RECURSIVE SignatureLoop(_, _, _, _, _)
SignatureLoop(c, sg, mh, pk, examined) ==
    IF c >= 2 * cofactor
    THEN [status |-> "NoValidCandidateFound", examined |-> examined]
    ELSE LET cand == Candidate(c, sg, mh, pk)
             seen == Append(examined, cand)
         IN  IF cand.outcome \in {"skipped", "rejected"}
             THEN SignatureLoop(c + 1, sg, mh, pk, seen)
             ELSE IF cand.outcome = "matched"
             THEN [status |-> "returned", R |-> cand.R, T |-> cand.T, U |-> cand.U,
                   examined |-> seen]
             ELSE [status |-> cand.outcome, examined |-> seen]

getPublicInputsFromSignature(sg, mh, pk) == SignatureLoop(0, sg, mh, pk, <<>>)

(* -------------------------- signature calls ---------------------------- *)

SigInit ==
    /\ sig \in [r : 0 .. FsP - 1, s : 0 .. FsP - 1]
    /\ msgHash \in 0 .. FsP - 1
    /\ pubKey \in {fromEllipticPoint(pt) : pt \in FinitePoints}
    /\ publicInputs = Pending
    /\ pubKeys = <<>>
    /\ index = 0
    /\ hashFn = NoHashFn
    /\ mutations = 0
    /\ gmp = NotCalled
    /\ cmr = NotCalled
    /\ proof = Pending
    /\ root = Pending

GetPublicInputsFromSignature ==
    /\ publicInputs = Pending
    /\ publicInputs' = getPublicInputsFromSignature(sig, msgHash, pubKey)
    /\ UNCHANGED <<pubKeys, index, hashFn, mutations, gmp, cmr, proof, root,
                   sig, msgHash, pubKey>>

SigNext == GetPublicInputsFromSignature

SigSpec == SigInit /\ [][SigNext]_vars

(* ------------------------ signature: the claims ------------------------ *)

Done == publicInputs # Pending

\* A WeierstrassPoint as a point of the group.
AsPoint(P) == <<P.x, P.y>>

\* (r, s) is what the standard signing procedure produces for some key
\* pair (sk, sk * G) and some nonce k over msgHash: R = k * G,
\* r = R.x mod n, s = k^-1 (msgHash + r * sk) mod n, both non-zero.
StandardSignature ==
    \E sk \in 1 .. FsP - 1, k \in 1 .. FsP - 1 :
        LET R == EcMul(curveG, k)
            r == R[1] % FsP
            s == (FsInverses[k] * (msgHash + r * sk)) % FsP
        IN  /\ r # 0
            /\ s # 0
            /\ sig = [r |-> r, s |-> s]
            /\ AsPoint(pubKey) = EcMul(curveG, sk)

\* The returned triple is right: back in Weierstrass form s*T + U is the
\* public key, and R's x-coordinate is r + i*n for some i below the
\* cofactor.
TripleIsRight ==
    LET R == toWeierstrass(publicInputs.R)
        T == toWeierstrass(publicInputs.T)
        U == toWeierstrass(publicInputs.U)
    IN  /\ R # NoPoint /\ T # NoPoint /\ U # NoPoint
        /\ EcAdd(EcMul(AsPoint(T), sig.s), AsPoint(U)) = AsPoint(pubKey)
        /\ \E i \in 0 .. cofactor - 1 : R.x = sig.r + i * FsP

\* C4 (signature recovery correctness), as claimed: for every signature
\* produced by the standard signing procedure the call returns without
\* error, and the returned R, T, U satisfy s*T + U = pubKey with R.x one of
\* the candidates r + i*n.
C4_RecoveryCorrect ==
    (Done /\ StandardSignature) =>
        /\ publicInputs.status = "returned"
        /\ TripleIsRight

\* What the call does for candidate c, as the group's arithmetic defines
\* it (the point at infinity is a point like any other here).
RefX(c) == CandidateX(sig, c \div 2)

RefR(c) == pointFromX(RefX(c), c % 2)

RefRInv(c) == FsInv(Inverted(sig, c \div 2))

RefT(c) == EcMul(RefR(c), RefRInv(c))

RefU(c) == EcMul(curveG, (FsP - ((RefRInv(c) * msgHash) % FsP)) % FsP)

RefsTU(c) == EcAdd(EcMul(RefT(c), sig.s), RefU(c))

\* Candidate c is recoverable as a curve point and satisfies
\* s*T + U = pubKey.
Satisfies(c) ==
    /\ Inverted(sig, c \div 2) # 0
    /\ RefR(c) # InvalidPoint
    /\ RefsTU(c) = AsPoint(pubKey)

NoCandidateSatisfies == \A c \in 0 .. 2 * cofactor - 1 : ~Satisfies(c)

\* Examining candidate c raises an arithmetic error of a collaborator: the
\* inversion of zero, or a point at infinity that has no coordinates.
ArithmeticErrorAt(c) ==
    \/ Inverted(sig, c \div 2) = 0
    \/ /\ RefR(c) # InvalidPoint
       /\ (RefT(c) = Infinity \/ RefU(c) = Infinity \/ RefsTU(c) = Infinity)

\* C5 (recovery failure), as claimed: whenever no candidate satisfies, the
\* call fails with NoValidCandidateFound.
C5_AlwaysNoValidCandidate ==
    (Done /\ NoCandidateSatisfies) => publicInputs.status = "NoValidCandidateFound"

\* C5, amended: whenever no candidate satisfies, the call never returns a
\* triple; it fails with NoValidCandidateFound exactly when examining no
\* candidate raises an arithmetic error, and with that error otherwise.
C5_NoTripleWithoutCandidate ==
    (Done /\ NoCandidateSatisfies) =>
        /\ publicInputs.status \in {"NoValidCandidateFound", "DivisionByZero", "PointAtInfinity"}
        /\ (publicInputs.status = "NoValidCandidateFound")
               <=> (\A c \in 0 .. 2 * cofactor - 1 : ~ArithmeticErrorAt(c))

\* Every candidate was gone through, none matched, the call threw.
C5_Witness ==
    /\ Done
    /\ NoCandidateSatisfies
    /\ sig.r # 0
    /\ publicInputs.status = "NoValidCandidateFound"
    /\ Len(publicInputs.examined) = 2 * cofactor
    /\ \E k \in 1 .. 2 * cofactor : publicInputs.examined[k].outcome = "rejected"

\* The candidates examined are an initial stretch of the order
\* i = 0 .. cofactor - 1, parity 0 then 1; none of the candidates before
\* the last one examined matched; and a returned triple is that of the
\* last candidate examined, which is the first in the order that satisfies
\* s*T + U = pubKey.
FirstMatchInOrder ==
    LET ex == publicInputs.examined
        last == Len(ex)
    IN  /\ last >= 1
        /\ last <= 2 * cofactor
        /\ \A k \in 1 .. last :
              /\ ex[k].i = (k - 1) \div 2
              /\ ex[k].parity = (k - 1) % 2
              /\ k < last => ex[k].outcome \in {"skipped", "rejected"}
              /\ k < last => ~Satisfies(k - 1)
        /\ publicInputs.status = "returned" =>
              /\ ex[last].outcome = "matched"
              /\ Satisfies(last - 1)
              /\ publicInputs.R = toEdwards(fromEllipticPoint(RefR(last - 1)))
              /\ publicInputs.T = toEdwards(fromEllipticPoint(RefT(last - 1)))
              /\ publicInputs.U = toEdwards(fromEllipticPoint(RefU(last - 1)))

\* The k-th candidate examined was skipped and the enumeration went on: to
\* the next candidate, or past the last one to NoValidCandidateFound.
SkippedAndWentOn(k) ==
    /\ publicInputs.examined[k].outcome = "skipped"
    /\ \/ k < Len(publicInputs.examined)
       \/ /\ k = 2 * cofactor
          /\ publicInputs.status = "NoValidCandidateFound"

\* The call ended at the k-th candidate examined with the inversion's
\* division by zero.
AbortedByDivisionByZero(k) ==
    /\ publicInputs.examined[k].outcome = "DivisionByZero"
    /\ k = Len(publicInputs.examined)
    /\ publicInputs.status = "DivisionByZero"

\* C8 (first match wins, in a fixed order), as claimed: the candidates are
\* examined with i ascending and parity 0 then 1, the returned triple is
\* that of the first candidate that satisfies s*T + U = pubKey, nothing is
\* examined after a match, and every candidate whose x has no curve point
\* at its parity is skipped without aborting the enumeration.
C8_EveryPointlessCandidateSkipped ==
    Done =>
        /\ FirstMatchInOrder
        /\ \A k \in 1 .. Len(publicInputs.examined) :
              RefR(k - 1) = InvalidPoint => SkippedAndWentOn(k)

\* C8, amended: as claimed, except that a candidate is skipped for having
\* no curve point only when its x is not 0; a candidate whose x is 0 ends
\* the call with the inversion's division by zero before its curve point
\* is looked for, whether or not x = 0 has one.
C8_FirstMatchWins ==
    Done =>
        /\ FirstMatchInOrder
        /\ \A k \in 1 .. Len(publicInputs.examined) :
              /\ (RefX(k - 1) # 0 /\ RefR(k - 1) = InvalidPoint) => SkippedAndWentOn(k)
              /\ RefX(k - 1) = 0 => AbortedByDivisionByZero(k)

\* A call that skipped a candidate without a curve point, rejected one
\* with a curve point, and returned at a later candidate of parity 1 with
\* candidates left unexamined.
C8_Witness ==
    /\ Done
    /\ publicInputs.status = "returned"
    /\ LET ex == publicInputs.examined
       IN  /\ Len(ex) < 2 * cofactor
           /\ ex[Len(ex)].parity = 1
           /\ \E k \in 1 .. Len(ex) - 1 : ex[k].outcome = "skipped"
           /\ \E k \in 1 .. Len(ex) - 1 : ex[k].outcome = "rejected"

\* C9, as claimed: for every candidate examined, the value handed to the
\* order field's inversion is congruent to sig.r modulo n, so that every
\* candidate uses the inverse of the signature's r.
C9_InvertsSignatureR ==
    Done =>
        \A k \in 1 .. Len(publicInputs.examined) :
            LET e == publicInputs.examined[k]
            IN  /\ e.inverted % FsP = sig.r % FsP
                /\ e.outcome # "DivisionByZero" => (e.rInv * sig.r) % FsP = 1

(* ------------------------- Merkle: the claims -------------------------- *)

\* The hash of two field elements as a verifier computes it.
Hash2(l, r) == hexToBigInt(FtoString(poseidon(<<l, r>>)))

\* generateMerkleProof returned a proof.
Returned == proof.status = "returned"

\* The key list of a returned generateMerkleProof call: the contents of
\* the caller's array as the call read them (line 55).
KeysRead == gmp.keys

\* The key list is non-empty and the index addresses one of its keys.
ValidIndex == Len(KeysRead) >= 1 /\ 0 <= index /\ index < Len(KeysRead)

\* The key list fits the tree: 1 to 2^TREE_DEPTH keys.
FitsTree == Len(KeysRead) >= 1 /\ Len(KeysRead) <= Pow2(TREE_DEPTH)

\* The computeMerkleRoot call and the generateMerkleProof call worked on
\* one and the same key list: the array had the same contents when either
\* read it.
SameKeyList == cmr.keys = KeysRead

\* Folding a proof upward from `node`, levels i (1-based) to TREE_DEPTH.
RECURSIVE FoldProof(_, _, _, _)
FoldProof(node, siblings, pathIndices, i) ==
    IF i > TREE_DEPTH THEN node
    ELSE FoldProof(IF pathIndices[i] = 0 THEN Hash2(node, siblings[i])
                   ELSE Hash2(siblings[i], node),
                   siblings, pathIndices, i + 1)

\* C1 (proof validity): for a key list of 1 to 2^TREE_DEPTH keys and a
\* valid index, folding the returned siblings along the returned path
\* indices, from the hashed leaf at the index, yields the returned root.
C1_ProofValidity ==
    (Returned /\ FitsTree /\ ValidIndex) =>
        /\ Len(proof.siblings) = TREE_DEPTH
        /\ Len(proof.pathIndices) = TREE_DEPTH
        /\ \A i \in 1 .. TREE_DEPTH : proof.pathIndices[i] \in {0, 1}
        /\ FoldProof(Leaves(KeysRead)[index + 1], proof.siblings, proof.pathIndices, 1)
               = proof.root

\* A proof for the last key of a full tree, whose path is all to the right.
C1_Witness ==
    /\ Returned
    /\ Len(KeysRead) = Pow2(TREE_DEPTH)
    /\ index = Len(KeysRead) - 1
    /\ proof.pathIndices = [i \in 1 .. TREE_DEPTH |-> 1]
    /\ FoldProof(Leaves(KeysRead)[index + 1], proof.siblings, proof.pathIndices, 1)
           = proof.root

\* C2 (out-of-range rejection), as claimed: a call with an index outside
\* 0 <= index < Len(KeysRead) ends in an IndexOutOfRange error and returns
\* no proof.
C2_OutOfRangeRejected ==
    (proof # Pending /\ ~(0 <= index /\ index < Len(KeysRead))) =>
        proof.status = "IndexOutOfRange"

\* C3 (index invariance): for a fixed key list, the root of the proof for
\* any valid index is the root computeMerkleRoot returns (the root of the
\* proof for index 0), so the proof roots of any two valid indices agree.
C3_IndexInvariance ==
    (Returned /\ root.status = "returned" /\ SameKeyList /\ ValidIndex) =>
        proof.root = root.root

\* Both calls made without a hash function on a list the caller extended
\* before either was resumed: both read the five keys.
C3_Witness ==
    /\ Returned
    /\ root.status = "returned"
    /\ hashFn = NoHashFn
    /\ mutations >= 1
    /\ SameKeyList
    /\ Len(KeysRead) = 5
    /\ KeysRead[5] = NewKey
    /\ index = 3
    /\ proof.root = root.root
    /\ proof.root # Undefined

\* The layer at level i (0: the leaves), built as the loop builds it.
RECURSIVE LayerAt(_, _)
LayerAt(leaves, i) == IF i = 0 THEN leaves ELSE NextLayer(LayerAt(leaves, i - 1), i - 1)

\* The position paired with the path node at level i.
PairedPosition(idx, i) ==
    LET at == idx \div Pow2(i)
    IN  IF at % 2 = 0 THEN at + 1 ELSE at - 1

\* C6 (level-distinct zero padding): for a valid index, the sibling at
\* level i is the element of layer i at the paired position, and it is
\* ZEROS[i] exactly when that position lies past the layer's end; for a
\* single key the siblings are ZEROS[0..7] in order, the path indices are
\* all 0 and the root is the leaf hashed on the left with ZEROS[0], ...,
\* ZEROS[7] in turn.
C6_LevelZeros ==
    (Returned /\ ValidIndex) =>
        /\ \A i \in 0 .. TREE_DEPTH - 1 :
              LET layer == LayerAt(Leaves(KeysRead), i)
                  pos == PairedPosition(index, i)
              IN  /\ pos >= Len(layer) => proof.siblings[i + 1] = ZEROS[i]
                  /\ pos < Len(layer) =>
                        /\ proof.siblings[i + 1] = layer[pos + 1]
                        /\ proof.siblings[i + 1] # ZEROS[i]
        /\ Len(KeysRead) = 1 =>
              /\ proof.siblings = [i \in 1 .. TREE_DEPTH |-> ZEROS[i - 1]]
              /\ proof.pathIndices = [i \in 1 .. TREE_DEPTH |-> 0]
              /\ proof.root =
                     FoldProof(Leaves(KeysRead)[1],
                               [i \in 1 .. TREE_DEPTH |-> ZEROS[i - 1]],
                               [i \in 1 .. TREE_DEPTH |-> 0], 1)

\* A proof in a three-key list for the last key: level 0 is padded with
\* ZEROS[0], level 1 has a real sibling, the levels above are padded.
C6_Witness ==
    /\ Returned
    /\ Len(KeysRead) = 3
    /\ index = 2
    /\ proof.siblings[1] = ZEROS[0]
    /\ proof.siblings[2] = LayerAt(Leaves(KeysRead), 1)[1]
    /\ proof.siblings[3] = ZEROS[2]

\* C7, as claimed: for every non-empty key list, whatever its length, the
\* working layer after the TREE_DEPTH iterations has exactly one element,
\* the returned root.
C7_OneElementAnyLength ==
    (Returned /\ Len(KeysRead) >= 1) =>
        /\ Len(proof.prevLayer) = 1
        /\ proof.root = proof.prevLayer[1]

\* C7, amended: for every key list of 1 to 2^TREE_DEPTH keys (and any
\* index), the working layer after the TREE_DEPTH iterations has exactly
\* one element, the returned root.
C7_OneElementWithinCapacity ==
    (Returned /\ FitsTree) =>
        /\ Len(proof.prevLayer) = 1
        /\ proof.root = proof.prevLayer[1]

C7_Witness ==
    /\ Returned
    /\ Len(KeysRead) = Pow2(TREE_DEPTH) - 1
    /\ Len(proof.prevLayer) = 1
    /\ proof.root = proof.prevLayer[1]

\* One level of the complete tree: every pair hashed, nothing padded.
PairUp(layer) == [k \in 1 .. (Len(layer) \div 2) |-> Hash2(layer[2 * k - 1], layer[2 * k])]

RECURSIVE Reduce(_, _)
Reduce(layer, levels) == IF levels = 0 THEN layer ELSE Reduce(PairUp(layer), levels - 1)

\* The roots of the complete trees of 2^h leaves that are all ZEROS[0],
\* for h = 0 .. TREE_DEPTH.
PaddingRoots ==
    [h \in 0 .. TREE_DEPTH |-> Reduce([j \in 1 .. Pow2(h) |-> ZEROS[0]], h)[1]]

\* In the row of 2^TREE_DEPTH leaves that holds the given leaves first and
\* ZEROS[0] in every remaining place: the root of the complete subtree of
\* height h whose leftmost leaf is at place `first` (0-based). A subtree to
\* the right of the given leaves has leaves ZEROS[0] only.
RECURSIVE SubtreeRoot(_, _, _)
SubtreeRoot(leaves, h, first) ==
    IF first >= Len(leaves) THEN PaddingRoots[h]
    ELSE IF h = 0 THEN leaves[first + 1]
    ELSE Hash2(SubtreeRoot(leaves, h - 1, first),
               SubtreeRoot(leaves, h - 1, first + Pow2(h - 1)))

\* The root of the complete tree of 2^TREE_DEPTH leaves: the given leaves
\* first, ZEROS[0] in every remaining place.
CompleteTreeRoot(leaves) == SubtreeRoot(leaves, TREE_DEPTH, 0)

\* C10: with ZEROS[0] = 0 and ZEROS[i] = hash(ZEROS[i-1], ZEROS[i-1]), the
\* returned root over 1 to 2^TREE_DEPTH keys is the root of the complete
\* tree of 2^TREE_DEPTH leaves padded with ZEROS[0].
C10_CompleteTree ==
    (Returned /\ FitsTree) =>
        \A leaves \in {Leaves(KeysRead)} : proof.root = CompleteTreeRoot(leaves)

C10_Witness ==
    /\ Returned
    /\ Len(KeysRead) = 5
    /\ \A leaves \in {Leaves(KeysRead)} : proof.root = CompleteTreeRoot(leaves)
    /\ \A i \in 1 .. TREE_DEPTH - 1 : Hash2(ZEROS[i - 1], ZEROS[i - 1]) = ZEROS[i]

====
